---- MODULE Spec2Model ----
(***************************************************************************)
(* Model of src/app.py: a Streamlit tool that registers reference images   *)
(* (blob in S3, row in the MySQL table image_files, perceptual hash as     *)
(* 16 hex digits) and compares an uploaded image against every row.        *)
(*                                                                         *)
(* A script run is triggered by one button.  What a run shows (messages,   *)
(* result list) is redrawn from nothing by the next run, so the run's      *)
(* output lives in the variables ui and cmp and is replaced by the next    *)
(* button press; the table and the bucket persist.                         *)
(***************************************************************************)
EXTENDS Integers, Sequences, FiniteSets, TLC

\* ------------------------------------------------------------------ bounds
MaxRecords == 2     \* rows the table may hold

\* ------------------------------------------------------- program constants
HashBits    == 64   \* imagehash.phash default 8x8; the divisor of similarity
MinTopN     == 1    \* st.slider(..., 1, 20, 5)
MaxTopN     == 20
MaxThreshold == 100 \* st.slider(..., 0, 100, 40, 5)
ThresholdStep == 5

None == "None"

\* ------------------------------------------------------------- fingerprints
\* An ImageHash holds HashBits booleans.  They are kept four to a group, each
\* group the value 0..15 of one hex digit of the printed form (most
\* significant bit first), so a hash is a sequence of HashBits/4 groups.
HexChars == <<"0","1","2","3","4","5","6","7","8","9","a","b","c","d","e","f">>
HexDigits == {HexChars[k] : k \in 1..16}
HexVal == [c \in HexDigits |-> (CHOOSE k \in 1..16 : HexChars[k] = c) - 1]

\* Bit b (1..4, most significant first) of the group value v.
GroupBit(v, b) == (v \div (2 ^ (4 - b))) % 2

\* The hash whose set bits are the positions S of 1..HashBits.
Bits(S) ==
    [j \in 1..(HashBits \div 4) |->
        8 * (IF 4*j - 3 \in S THEN 1 ELSE 0) + 4 * (IF 4*j - 2 \in S THEN 1 ELSE 0)
      + 2 * (IF 4*j - 1 \in S THEN 1 ELSE 0) + (IF 4*j \in S THEN 1 ELSE 0)]

\* ImageHash.__str__: the flattened bits read as one binary number, printed
\* as lowercase hex zero-padded to HashBits/4 digits.
hash_to_str(h) == [j \in 1..Len(h) |-> HexChars[h[j] + 1]]

\* A call returns Ok(value) or raises, Raised(error).
Ok(value) == [ok |-> TRUE, value |-> value]
Raised(error) == [ok |-> FALSE, error |-> error]

\* imagehash.hex_to_hash: int(hexstr, 16) raises ValueError on a character
\* that is no hex digit; otherwise the value is expanded to 4 bits a digit,
\* so a text of another length gives a hash of another size.
hex_to_hash(text) ==
    IF \E j \in 1..Len(text) : text[j] \notin HexDigits
    THEN Raised("ValueError")
    ELSE Ok([j \in 1..Len(text) |-> HexVal[text[j]]])

\* Number of bits held by a hash.
HashSize(h) == 4 * Len(h)

\* Differing bits of two groups.
GroupDistance ==
    [x \in 0..15 |-> [y \in 0..15 |->
        Cardinality({b \in 1..4 : GroupBit(x, b) # GroupBit(y, b)})]]

\* ImageHash.__sub__: number of differing positions.
RECURSIVE HammingFrom(_, _, _)
HammingFrom(h1, h2, j) ==
    IF j > Len(h1) THEN 0
    ELSE GroupDistance[h1[j]][h2[j]] + HammingFrom(h1, h2, j + 1)

Hamming(h1, h2) == HammingFrom(h1, h2, 1)

\* A variant that cuts the digits off instead of rounding.
RoundHundredthsDown(num, den) == (num * 100) \div den

\* round(x, 2) of Python on the exact value num/den, in hundredths:
\* correctly rounded, ties to even.
RoundHundredths(num, den) ==
    LET q == (num * 100) \div den
        r == (num * 100) % den
    IN  IF 2 * r > den THEN q + 1
        ELSE IF 2 * r < den THEN q
        ELSE IF q % 2 = 0 THEN q ELSE q + 1

\* similarity(h1, h2) = round((1 - d / 64) * 100, 2), as hundredths of a percent.
\* (1 - d/64) * 100 = (64 - d) * 100 / 64 is exact in binary floating point.
similarity(h1, h2) ==
    LET d == Hamming(h1, h2)
    IN  RoundHundredths((HashBits - d) * 100, HashBits)

\* ------------------------------------------------------------------ inputs
\* Contents of an uploaded file: no bytes at all, bytes PIL cannot parse, or
\* one of a few pictures.  phash is a deterministic function of the picture.
Images == {"imgA", "imgB"}
Corrupt == "corrupt"
NoData == ""
Datas == Images \cup {Corrupt, NoData}

\* imgB differs from imgA in 16 bits: similarity 75.00.
PHashOf ==
    [img \in Images |->
        CASE img = "imgA" -> Bits({})
          [] img = "imgB" -> Bits(1..16)]

\* The files an operator may pick for registration (name as a character
\* sequence; the uploader only admits names ending in .jpg, .jpeg, .png or
\* .webp), and for comparison.
SrcFiles ==
    { [name |-> <<"a", ".", "p", "n", "g">>, data |-> "imgA"],
      [name |-> <<"b", ".", "p", "n", "g">>, data |-> "imgB"],
      [name |-> <<"x", ".", "j", "p", "g">>, data |-> Corrupt],
      [name |-> <<"e", ".", "p", "n", "g">>, data |-> NoData] }
CmpFiles == SrcFiles
\* cmp_file is None while nothing is uploaded.
NoFile == [none |-> TRUE]

\* Readings of datetime.utcnow(): the wall clock, which may be set back and
\* which separate sessions read independently.
Ticks == {1, 2}
\* Contents of the text area, and of an edited description cell.
Descs == {NoData, "memo"}
Unedited == "unedited"
EditedDescs == {"edit", Unedited}
\* Two of the positions 0, 5, ..., 100 of the threshold slider, and two of
\* the positions of the top_n slider.
Thresholds == {t \in {75, 100} : t <= MaxThreshold /\ t % ThresholdStep = 0}
TopNs == {n \in {1, 2} : MinTopN <= n /\ n <= MaxTopN}

BUCKET == "bucket"

\* ------------------------------------------------------------------- state
VARIABLES
    records,    \* table image_files, in insertion order
    nextId,     \* AUTO_INCREMENT counter of image_files.id
    blobs,      \* the bucket: one [key, data] per object
    pc,         \* "idle", or "registering" while the for loop of tab 1 runs
    batch,      \* the files of src_files the loop has not yet taken
    desc_common,\* the text area's content, read by the registering run
    count,      \* the loop's count
    ui,         \* what the current script run reported
    cmp,        \* the comparison of the current script run
    probe       \* operands and values of similarity, for the scorer's laws

vars == <<records, nextId, blobs, pc, batch, desc_common, count, ui, cmp, probe>>

Msg(kind) == [kind |-> kind]
NoMsg == Msg("none")
NoCmp == [ran |-> FALSE]
NoProbe == [set |-> FALSE]

\* ----------------------------------------------------------------- helpers
\* calc_phash: Image.open raises on bytes that are no image.
calc_phash(data) ==
    IF data = Corrupt THEN Raised("UnidentifiedImageError") ELSE Ok(PHashOf[data])

\* os.path.splitext(name)[1]: from the last dot on, unless only dots precede it.
splitext_ext(name) ==
    LET dots == {i \in 1..Len(name) :
                    name[i] = "." /\ \E j \in 1..(i - 1) : name[j] # "."}
    IN  IF dots = {} THEN <<>>
        ELSE LET last == CHOOSE i \in dots : \A k \in dots : k <= i
             IN  SubSeq(name, last, Len(name))

\* The key upload_to_s3 builds: prefix "/" 20-digit UTC stamp, extension.
S3Key(prefix, now, original_name) ==
    LET ext0 == splitext_ext(original_name)
        ext == IF ext0 = <<>> THEN <<".", "p", "n", "g">> ELSE ext0
    IN  [prefix |-> prefix, stamp |-> now, ext |-> ext]

\* f"s3://{BUCKET}/{s3_key}" and the split that recovers the key.
S3Url(key) == [bucket |-> BUCKET, key |-> key]
KeyOfUrl(url) == url.key

\* A variant in which the upload returns without having written the object.
PutBlobDropped(store, key, data) == store

\* s3.upload_fileobj: writes the object, replacing any object under the key.
PutBlob(store, key, data) ==
    {b \in store : b.key # key} \cup {[key |-> key, data |-> data]}

\* INSERT INTO image_files (file_name, s3_url, phash, description); the
\* table assigns id and uploaded_at.
insert_image_record(table, id, at, file_name, s3_url, phash_str, description) ==
    Append(table, [id |-> id, file_name |-> file_name, s3_url |-> s3_url,
                   phash |-> phash_str, description |-> description,
                   uploaded_at |-> at])

\* SELECT * FROM image_files ORDER BY id DESC
RECURSIVE OrderByIdDesc(_)
OrderByIdDesc(rows) ==
    IF rows = {} THEN <<>>
    ELSE LET top == CHOOSE r \in rows : \A q \in rows : q.id <= r.id
         IN  <<top>> \o OrderByIdDesc(rows \ {top})

Range(s) == {s[i] : i \in 1..Len(s)}
load_all_images == OrderByIdDesc(Range(records))

\* ------------------------------------------------------- tab 1: register
\* The button "register": an empty selection only warns; otherwise the loop
\* over src_files starts with count = 0.
PressRegister(src_files, text) ==
    /\ pc = "idle"
    /\ Len(records) + Len(src_files) <= MaxRecords
    /\ cmp' = NoCmp
    /\ IF src_files = <<>>
       THEN /\ ui' = Msg("warning_select_images")
            /\ batch' = <<>>
            /\ desc_common' = NoData
            /\ count' = 0
            /\ UNCHANGED pc
       ELSE /\ pc' = "registering"
            /\ batch' = src_files
            /\ desc_common' = text
            /\ count' = 0
            /\ ui' = NoMsg
    /\ UNCHANGED <<records, nextId, blobs, probe>>

\* An exception leaves the loop and ends the script run; the files not yet
\* taken stay unregistered.
Raise(kind) ==
    /\ pc' = "idle"
    /\ ui' = Msg(kind)

\* One iteration of "for f in src_files".  now is the clock reading the key
\* is stamped with; the table's uploaded_at default is taken at the insert
\* that follows and is modelled as the same reading.
RegisterFile(now, s3_ok) ==
    /\ pc = "registering"
    /\ batch # <<>>
    /\ LET f == Head(batch)
           phash == calc_phash(f.data)
           s3_key == S3Key("source-images", now, f.name)
       IN  IF f.data = NoData
           THEN \* if not data: continue
                /\ batch' = Tail(batch)
                /\ UNCHANGED <<records, nextId, blobs, pc, count, ui>>
           ELSE IF ~phash.ok
           THEN /\ Raise("exception_decode")
                /\ UNCHANGED <<records, nextId, blobs, batch, count>>
           ELSE IF ~s3_ok
           THEN \* upload_to_s3 shows the error and re-raises
                /\ Raise("exception_s3")
                /\ UNCHANGED <<records, nextId, blobs, batch, count>>
           ELSE /\ blobs' = PutBlob(blobs, s3_key, f.data)
                /\ records' = insert_image_record(
                                  records, nextId, now, f.name, S3Url(s3_key),
                                  hash_to_str(phash.value),
                                  IF desc_common # NoData THEN desc_common ELSE None)
                /\ nextId' = nextId + 1
                /\ count' = count + 1
                /\ batch' = Tail(batch)
                /\ UNCHANGED <<pc, ui>>
    /\ UNCHANGED <<desc_common, cmp, probe>>

\* After the loop: st.success with the count.
RegisterDone ==
    /\ pc = "registering"
    /\ batch = <<>>
    /\ pc' = "idle"
    /\ ui' = [kind |-> "success_registered", count |-> count]
    /\ UNCHANGED <<records, nextId, blobs, batch, desc_common, count, cmp, probe>>

\* A script run that is not the registering one has none of its locals.
NoRegisterRun ==
    /\ batch' = <<>>
    /\ desc_common' = NoData
    /\ count' = 0

\* A variant whose UPDATE also refreshes uploaded_at of every row it writes.
SaveChangesTouching(edited, db_ok) ==
    /\ pc = "idle"
    /\ records # <<>>
    /\ cmp' = NoCmp
    /\ IF db_ok
       THEN /\ records' = [i \in 1..Len(records) |->
                             [records[i] EXCEPT !.description =
                                 IF edited[records[i].id] = Unedited
                                 THEN @ ELSE edited[records[i].id],
                                                !.uploaded_at = 0]]
            /\ ui' = Msg("success_saved")
       ELSE /\ ui' = Msg("error_save")
            /\ UNCHANGED records
    /\ NoRegisterRun
    /\ UNCHANGED <<nextId, blobs, pc, probe>>

\* The button "save changes": the editor returns the loaded rows with the
\* description column as the operator left it; every row is written back.
SaveChanges(edited, db_ok) ==
    /\ pc = "idle"
    /\ records # <<>>
    /\ cmp' = NoCmp
    /\ IF db_ok
       THEN /\ records' = [i \in 1..Len(records) |->
                             [records[i] EXCEPT !.description =
                                 IF edited[records[i].id] = Unedited
                                 THEN @ ELSE edited[records[i].id]]]
            /\ ui' = Msg("success_saved")
       ELSE \* the connection closes without commit
            /\ ui' = Msg("error_save")
            /\ UNCHANGED records
    /\ NoRegisterRun
    /\ UNCHANGED <<nextId, blobs, pc, probe>>

\* -------------------------------------------------------- tab 2: compare
Min(a, b) == IF a <= b THEN a ELSE b

Entry(row, sim) ==
    [id |-> row.id, file_name |-> row.file_name, s3_url |-> row.s3_url,
     similarity |-> sim, description |-> row.description]

\* A variant of the loop that compares with > instead of >=.
RECURSIVE FilterStrict(_, _, _, _, _)
FilterStrict(cmp_hash, rows, hash_obj, threshold, i) ==
    IF i > Len(rows) THEN <<>>
    ELSE LET sim == similarity(cmp_hash, hash_obj[i].value)
             rest == FilterStrict(cmp_hash, rows, hash_obj, threshold, i + 1)
         IN  IF sim > threshold * 100 THEN <<Entry(rows[i], sim)>> \o rest ELSE rest

\* A variant of the loop that appends every row.
RECURSIVE FilterAll(_, _, _, _, _)
FilterAll(cmp_hash, rows, hash_obj, threshold, i) ==
    IF i > Len(rows) THEN <<>>
    ELSE <<Entry(rows[i], similarity(cmp_hash, hash_obj[i].value))>>
            \o FilterAll(cmp_hash, rows, hash_obj, threshold, i + 1)

\* The loop over src_df.iterrows(): keeps, in row order, every row whose
\* similarity reaches the threshold (a percentage; scores are hundredths).
\* hash_obj[i] is the decoded hash of rows[i].
RECURSIVE Filter(_, _, _, _, _)
Filter(cmp_hash, rows, hash_obj, threshold, i) ==
    IF i > Len(rows) THEN <<>>
    ELSE LET row == rows[i]
             sim == similarity(cmp_hash, hash_obj[i].value)
             rest == Filter(cmp_hash, rows, hash_obj, threshold, i + 1)
         IN  IF sim >= threshold * 100 THEN <<Entry(row, sim)>> \o rest ELSE rest

Perms(n) == {p \in [1..n -> 1..n] : \A i, j \in 1..n : i # j => p[i] # p[j]}

\* A variant that leaves the rows as they are.
sort_values_skipped(rows) == {rows}

\* DataFrame.sort_values("similarity", ascending=False) with the default
\* kind="quicksort", which pandas documents as not stable: the rows come out
\* by descending similarity, rows of equal similarity in an order the numpy
\* build decides.  The set of orders it may return.
sort_values(rows) ==
    LET n == Len(rows)
    IN  {[i \in 1..n |-> rows[p[i]]] :
            p \in {q \in Perms(n) :
                     \A i \in 1..(n - 1) :
                        rows[q[i]].similarity >= rows[q[i + 1]].similarity}}

\* DataFrame.head(n)
head(rows, n) == SubSeq(rows, 1, Min(n, Len(rows)))

CmpRun(query, threshold, top_n, src_df, survivors, results) ==
    [ran |-> TRUE, query |-> query, threshold |-> threshold, top_n |-> top_n,
     src_df |-> src_df, survivors |-> survivors, results |-> results]

\* Where a comparison run ends: the message it shows and what it ranked.
Ended(kind, cmp_file, threshold, top_n, src_df, survivors, res_df) ==
    /\ ui' = Msg(kind)
    /\ cmp' = CmpRun(cmp_file.data, threshold, top_n, src_df, survivors, res_df)

\* The ranking, once the uploaded image and every stored text have decoded.
\* res_df is what the run then renders row by row.
Rank(cmp_file, cmp_hash, threshold, top_n, src_df, hash_obj) ==
    \E survivors \in {Filter(cmp_hash, src_df, hash_obj, threshold, 1)} :
        IF survivors = <<>>
        THEN Ended("info_no_results", cmp_file, threshold, top_n, src_df, <<>>, <<>>)
        ELSE \E sorted \in sort_values(survivors) :
                Ended("results", cmp_file, threshold, top_n, src_df,
                      survivors, head(sorted, top_n))

\* The button "run analysis".  res_df is the run's result; ui tells how the
\* run ended.
Compare(cmp_file, threshold, top_n) ==
    /\ pc = "idle"
    /\ IF cmp_file = NoFile
       THEN /\ ui' = Msg("warning_upload_image")
            /\ cmp' = NoCmp
       ELSE \E src_df \in {load_all_images} :
            IF src_df = <<>>
            THEN Ended("error_no_sources", cmp_file, threshold, top_n, src_df, <<>>, <<>>)
            ELSE IF cmp_file.data = NoData
            THEN Ended("error_no_data", cmp_file, threshold, top_n, src_df, <<>>, <<>>)
            ELSE \E cmp_hash \in {calc_phash(cmp_file.data)} :
                 IF ~cmp_hash.ok
                 THEN Ended("exception_decode", cmp_file, threshold, top_n, src_df, <<>>, <<>>)
                 ELSE \E hash_obj \in {[i \in 1..Len(src_df) |->
                                          hex_to_hash(src_df[i].phash)]} :
                      IF \E i \in 1..Len(src_df) : ~hash_obj[i].ok
                      THEN \* src_df["phash"].apply(imagehash.hex_to_hash) raises
                           Ended("exception_hex", cmp_file, threshold, top_n, src_df, <<>>, <<>>)
                      ELSE IF \E i \in 1..Len(src_df) :
                                 HashSize(hash_obj[i].value) # HashBits
                      THEN \* h1 - h2 raises TypeError: hashes of different shape
                           Ended("exception_shape", cmp_file, threshold, top_n, src_df, <<>>, <<>>)
                      ELSE Rank(cmp_file, cmp_hash.value, threshold, top_n, src_df, hash_obj)
    /\ NoRegisterRun
    /\ UNCHANGED <<records, nextId, blobs, pc, probe>>

\* ------------------------------------------------------------ specification
RECURSIVE SeqsUpTo(_, _)
SeqsUpTo(S, n) ==
    IF n = 0 THEN {<<>>}
    ELSE LET shorter == SeqsUpTo(S, n - 1)
         IN  shorter \cup {Append(s, x) : s \in {t \in shorter : Len(t) = n - 1}, x \in S}

Batches == SeqsUpTo(SrcFiles, MaxRecords)

Init ==
    /\ records = <<>>
    /\ nextId = 1
    /\ blobs = {}
    /\ pc = "idle"
    /\ batch = <<>>
    /\ desc_common = NoData
    /\ count = 0
    /\ ui = NoMsg
    /\ cmp = NoCmp
    /\ probe = NoProbe

Next ==
    \/ \E src_files \in Batches, text \in Descs : PressRegister(src_files, text)
    \/ \E now \in Ticks, s3_ok \in BOOLEAN : RegisterFile(now, s3_ok)
    \/ RegisterDone
    \/ \E edited \in [{r.id : r \in Range(records)} -> EditedDescs], db_ok \in BOOLEAN :
          SaveChanges(edited, db_ok)
    \/ \E cmp_file \in CmpFiles \cup {NoFile}, threshold \in Thresholds, top_n \in TopNs :
          Compare(cmp_file, threshold, top_n)

Spec == Init /\ [][Next]_vars

\* ----------------------------------------- a table that already holds rows
\* image_files outlives the program and is written by whoever has the
\* database: a row may hold a phash text this program never produced.
LegacyTexts ==
    { <<"0","0","0","0","0","0","0","0","0","0","0","0","0","0","0","g">>,
      <<"f","f","f","f">> }

LegacyKey == [prefix |-> "source-images", stamp |-> 0, ext |-> <<".", "p", "n", "g">>]

LegacyRow(text) ==
    [id |-> 1, file_name |-> <<"o", ".", "p", "n", "g">>, s3_url |-> S3Url(LegacyKey),
     phash |-> text, description |-> None, uploaded_at |-> 0]

InitLegacy ==
    /\ \E text \in LegacyTexts : records = <<LegacyRow(text)>>
    /\ nextId = 2
    /\ blobs = {[key |-> LegacyKey, data |-> "imgA"]}
    /\ pc = "idle"
    /\ batch = <<>>
    /\ desc_common = NoData
    /\ count = 0
    /\ ui = NoMsg
    /\ cmp = NoCmp
    /\ probe = NoProbe

SpecLegacy == InitLegacy /\ [][Next]_vars

\* ------------------------------------------------------ the scorer by itself
\* similarity applied to a fixed hash a and to two hashes b and c that are
\* filled one bit at a time, so that every distance 0..HashBits occurs.
ProbeBases == {Bits({}), Bits(1..HashBits), Bits({i \in 1..HashBits : i % 2 = 1}),
               Bits({3, 4, 5, 17, 40, 41, 64})}

Measure(a, kb, kc) ==
    LET b == Bits(1..kb)
        c == Bits(1..kc)
    IN  [set |-> TRUE, a |-> a, kb |-> kb, kc |-> kc,
         dab |-> Hamming(a, b), dac |-> Hamming(a, c),
         saa |-> similarity(a, a), sab |-> similarity(a, b),
         sba |-> similarity(b, a), sac |-> similarity(a, c)]

ExtendB ==
    /\ probe.kb < HashBits
    /\ probe' = Measure(probe.a, probe.kb + 1, probe.kc)
    /\ UNCHANGED <<records, nextId, blobs, pc, batch, desc_common, count, ui, cmp>>

ExtendC ==
    /\ probe.kc < HashBits
    /\ probe' = Measure(probe.a, probe.kb, probe.kc + 1)
    /\ UNCHANGED <<records, nextId, blobs, pc, batch, desc_common, count, ui, cmp>>

InitScore ==
    /\ records = <<>>
    /\ nextId = 1
    /\ blobs = {}
    /\ pc = "idle"
    /\ batch = <<>>
    /\ desc_common = NoData
    /\ count = 0
    /\ ui = NoMsg
    /\ cmp = NoCmp
    /\ \E a \in ProbeBases : probe = Measure(a, 0, 0)

NextScore == ExtendB \/ ExtendC

SpecScore == InitScore /\ [][NextScore]_vars

\* ------------------------------------------------------------------ claims
Decoded(row) == hex_to_hash(row.phash)
WellFormed(row) == Decoded(row).ok /\ HashSize(Decoded(row).value) = HashBits
ScoreOf(query, row) == similarity(PHashOf[query], Decoded(row).value)

\* The run reached the ranking: it shows results or the "no results" notice.
Ranked == cmp.ran /\ ui.kind \in {"results", "info_no_results"}

\* Rows of the run's candidates that decode, and those that meet the threshold.
ValidRows == {i \in 1..Len(cmp.src_df) : WellFormed(cmp.src_df[i])}
Meeting == {i \in ValidRows : ScoreOf(cmp.query, cmp.src_df[i]) >= cmp.threshold * 100}
PosOf(id) == CHOOSE i \in 1..Len(cmp.src_df) : cmp.src_df[i].id = id
ResultIds == {cmp.results[k].id : k \in 1..Len(cmp.results)}
ErrorKinds == {"error_no_sources", "error_no_data", "exception_decode",
               "exception_hex", "exception_shape"}

\* C1: no entry of the result scores below the threshold, each entry carries
\* the score of its row, and the filter keeps every row whose score is at
\* least the threshold, the rows that score exactly the threshold included.
C1_ThresholdFilter ==
    cmp.ran =>
        /\ \A k \in 1..Len(cmp.results) :
              /\ cmp.results[k].similarity >= cmp.threshold * 100
              /\ cmp.results[k].similarity =
                    ScoreOf(cmp.query, cmp.src_df[PosOf(cmp.results[k].id)])
        /\ Ranked =>
              \A i \in Meeting :
                 \E k \in 1..Len(cmp.survivors) : cmp.survivors[k].id = cmp.src_df[i].id

\* A run that kept a row scoring exactly the threshold and dropped a row
\* scoring below it.
C1_Witness ==
    /\ cmp.ran /\ ui.kind = "results"
    /\ \E k \in 1..Len(cmp.results) : cmp.results[k].similarity = cmp.threshold * 100
    /\ \E i \in 1..Len(cmp.src_df) :
          ScoreOf(cmp.query, cmp.src_df[i]) < cmp.threshold * 100

\* C2: the result holds min(top_n, rows meeting the threshold) entries, all
\* of them distinct survivors, in descending order of score, and no survivor
\* left out scores strictly higher than an entry of the result.
C2_TopK ==
    Ranked =>
        /\ Len(cmp.results) = Min(cmp.top_n, Cardinality(Meeting))
        /\ Len(cmp.results) <= cmp.top_n
        /\ Cardinality(ResultIds) = Len(cmp.results)
        /\ \A k \in 1..Len(cmp.results) : cmp.results[k] \in Range(cmp.survivors)
        /\ \A k \in 1..(Len(cmp.results) - 1) :
              cmp.results[k].similarity >= cmp.results[k + 1].similarity
        /\ \A j \in 1..Len(cmp.survivors) :
              cmp.survivors[j].id \notin ResultIds =>
                 \A k \in 1..Len(cmp.results) :
                    cmp.survivors[j].similarity <= cmp.results[k].similarity

\* More rows survive than top_n admits, and the survivor that comes first in
\* the input is the one left out, for its lower score.
C2_Witness ==
    /\ cmp.ran /\ ui.kind = "results"
    /\ Len(cmp.survivors) > cmp.top_n
    /\ cmp.survivors[1].id \notin ResultIds
    /\ \E k \in 1..Len(cmp.results) :
          cmp.survivors[1].similarity < cmp.results[k].similarity

\* C3: two entries of the result with the same score stand in the order their
\* rows have in the input (the order load_all_images returned).
C3_StableTieBreak ==
    (cmp.ran /\ ui.kind = "results") =>
        \A k, l \in 1..Len(cmp.results) :
           (k < l /\ cmp.results[k].similarity = cmp.results[l].similarity)
              => PosOf(cmp.results[k].id) < PosOf(cmp.results[l].id)

\* C4: a run whose candidates hold exactly one row with a malformed phash text,
\* next to rows that decode, is not aborted: it ranks the rows that decode.
C4_CorruptRowSkipped ==
    (cmp.ran /\ cmp.query \in Images
        /\ ValidRows # {}
        /\ Cardinality({i \in 1..Len(cmp.src_df) : ~WellFormed(cmp.src_df[i])}) = 1) =>
        /\ ui.kind \in {"results", "info_no_results"}
        /\ Len(cmp.results) = Min(cmp.top_n, Cardinality(Meeting))
        /\ \A k \in 1..Len(cmp.results) : PosOf(cmp.results[k].id) \in Meeting

\* A registering run has ended, and not by a failed upload.
RegisterRunEnded ==
    /\ pc = "idle"
    /\ ~cmp.ran
    /\ ui.kind \in {"success_registered", "exception_decode"}

\* C5: when a registering run ends, an undecodable image has cost only its
\* own registration: no decodable image of the batch is left unregistered,
\* and a run that took every file reports its count of successes.
C5_BatchSurvivesDecodeError ==
    RegisterRunEnded =>
        /\ \A i \in 1..Len(batch) : batch[i].data \notin Images
        /\ batch = <<>> => ui.kind = "success_registered"

\* No candidate of the run meets the threshold, although the uploaded image
\* and every row decode.
NoCandidateMeets ==
    /\ cmp.ran /\ cmp.query \in Images
    /\ cmp.src_df # <<>>
    /\ ValidRows = 1..Len(cmp.src_df)
    /\ Meeting = {}

\* C6 as stated: a run over no candidates, and a run in which no candidate
\* meets the threshold, both end with an empty result and without an error.
C6_EmptyIsNoError ==
    (cmp.ran /\ (cmp.src_df = <<>> \/ NoCandidateMeets)) =>
        /\ cmp.results = <<>>
        /\ ui.kind \notin ErrorKinds

\* C6 as amended: a run in which no candidate meets the threshold ends with an
\* empty result and the "no results" notice, not an error; a run over no
\* candidates ends with an empty result too, but reports the error that no
\* reference image exists yet.
C6_EmptyOutcome ==
    /\ (cmp.ran /\ cmp.src_df = <<>>) =>
          (cmp.results = <<>> /\ ui.kind = "error_no_sources")
    /\ NoCandidateMeets =>
          (cmp.results = <<>> /\ ui.kind = "info_no_results")

\* A run over candidates none of which meets the threshold.
C6_Witness ==
    /\ NoCandidateMeets
    /\ ui.kind = "info_no_results"
    /\ cmp.results = <<>>

\* C7: the score is the percentage (1 - d/64) * 100 rounded to the nearest
\* hundredth; a hash scores 100.00 against itself; the score is symmetric,
\* lies in 0..100 and does not rise when the distance grows.
C7_ScorerLaws ==
    probe.set =>
        /\ 2 * (HashBits * probe.sab - 10000 * (HashBits - probe.dab)) <= HashBits
        /\ 2 * (10000 * (HashBits - probe.dab) - HashBits * probe.sab) <= HashBits
        /\ probe.saa = 10000
        /\ probe.sab = probe.sba
        /\ probe.sab >= 0 /\ probe.sab <= 10000
        /\ probe.sac >= 0 /\ probe.sac <= 10000
        /\ probe.dac > probe.dab => probe.sac <= probe.sab

\* Two distances, the larger with the strictly lower score, the smaller one
\* with a score that needed rounding.
C7_Witness ==
    /\ probe.set
    /\ probe.dab > 0 /\ probe.dac > probe.dab
    /\ probe.sac < probe.sab
    /\ (10000 * (HashBits - probe.dab)) % HashBits # 0

SameIdentity(r, q) ==
    /\ q.id = r.id
    /\ q.file_name = r.file_name
    /\ q.s3_url = r.s3_url
    /\ q.phash = r.phash
    /\ q.uploaded_at = r.uploaded_at

\* C8: every step keeps each existing row in place with its id, name,
\* locator, fingerprint and timestamp; a save-changes step keeps the number of
\* rows, and a comparison step keeps the table as it is.
C8_RecordsImmutable ==
    [][ /\ Len(records') >= Len(records)
        /\ \A i \in 1..Len(records) : SameIdentity(records[i], records'[i])
        /\ ui'.kind \in {"success_saved", "error_save"} => Len(records') = Len(records)
        /\ (cmp'.ran \/ ui'.kind = "warning_upload_image") => records' = records
      ]_vars

\* Save-changes has rewritten the description of a row of a two-row table.
C8_Witness ==
    /\ ui.kind = "success_saved"
    /\ Len(records) = 2
    /\ \E i \in 1..Len(records) : records[i].description = "edit"

\* C9: after every step each row's locator names an object the bucket holds,
\* and the step in which an upload fails inserts nothing.
C9_UploadBeforeRecord ==
    [][ /\ \A i \in 1..Len(records') :
              \E b \in blobs' : b.key = KeyOfUrl(records'[i].s3_url)
        /\ ui'.kind = "exception_s3" => records' = records
      ]_vars

\* A batch whose first image was registered and whose second upload failed.
C9_Witness ==
    /\ pc = "idle" /\ ui.kind = "exception_s3"
    /\ count >= 1 /\ batch # <<>>
    /\ records # <<>>
    /\ \A i \in 1..Len(records) : \E b \in blobs : b.key = KeyOfUrl(records[i].s3_url)

\* C10: no two rows share a storage locator.
C10_UniqueLocators ==
    \A i, j \in 1..Len(records) : i # j => records[i].s3_url # records[j].s3_url

====
